---------------------------- MODULE Spec2Model ----------------------------
(***************************************************************************)
(* A model of the binlog decode engine of obgnail/binlog-parser: the       *)
(* sequential walk WalkEvent / DecodeEvent over a byte stream, the decode  *)
(* context (format description, table registry), the window filter        *)
(* (Start / Stop), the validator and the body decoders.                    *)
(*                                                                         *)
(* Bytes are naturals 0..255, byte slices are sequences.  Integers decoded *)
(* from the stream are kept below 2^31 by the inputs (their high bytes are *)
(* zero).  A Go panic (index out of range, nil dereference) is the error   *)
(* value "panic".                                                          *)
(***************************************************************************)
EXTENDS Integers, Sequences, FiniteSets, TLC

\* ------------------------------------------------------------------------
\* Event type codes (the constants the decoder switches on) and the domain
\* of EventType2Str.
UnknownEvent == 0
StartEventV3 == 1
QueryEvent == 2
StopEvent == 3
RotateEvent == 4
IntvarEvent == 5
FormatDescriptionEvent == 15
XIDEvent == 16
TableMapEvent == 19
WriteRowsEventV0 == 20
UpdateRowsEventV0 == 21
DeleteRowsEventV0 == 22
WriteRowsEventV1 == 23
UpdateRowsEventV1 == 24
DeleteRowsEventV1 == 25
WriteRowsEventV2 == 30
UpdateRowsEventV2 == 31
DeleteRowsEventV2 == 32
GTIDEvent == 33
AnonymousGTIDEvent == 34
PreviousGTIDEvent == 35
LastEventType == 35

\* the keys of EventType2Str
KnownEventTypes == UnknownEvent..LastEventType

RowsEventTypes ==
  {WriteRowsEventV0, UpdateRowsEventV0, DeleteRowsEventV0,
   WriteRowsEventV1, UpdateRowsEventV1, DeleteRowsEventV1,
   WriteRowsEventV2, UpdateRowsEventV2, DeleteRowsEventV2}

\* MySQL column type codes used by decodeMeta
MySQLTypeDecimal == 0
MySQLTypeTiny == 1
MySQLTypeShort == 2
MySQLTypeLong == 3
MySQLTypeFloat == 4
MySQLTypeDouble == 5
MySQLTypeNull == 6
MySQLTypeTimestamp == 7
MySQLTypeLonglong == 8
MySQLTypeInt24 == 9
MySQLTypeDate == 10
MySQLTypeTime == 11
MySQLTypeDatetime == 12
MySQLTypeYear == 13
MySQLTypeNewDate == 14
MySQLTypeVarchar == 15
MySQLTypeBit == 16
MySQLTypeTimestamp2 == 17
MySQLTypeDatetime2 == 18
MySQLTypeTime2 == 19
MySQLTypeJSON == 245
MySQLTypeNewDecimal == 246
MySQLTypeEnum == 247
MySQLTypeSet == 248
MySQLTypeTinyBlob == 249
MySQLTypeMediumBlob == 250
MySQLTypeLongBlob == 251
MySQLTypeBlob == 252
MySQLTypeVarString == 253
MySQLTypeString == 254
MySQLTypeGeometry == 255

defaultEventHeaderSize == 19
\* the size below which decodeEventHeader leaves LogPos and Flag zero
legacyEventHeaderSize == 13
binlogChecksumLength == 4
\* the fixed width of the server version field of a format description
serverVersionLength == 50

\* error values
NoErr == "nil"
EOF == "EOF"
ErrUnexpectedEOF == "unexpected EOF"
ErrPanic == "panic"

Nil == [kind |-> "nil"]

\* ------------------------------------------------------------------------
\* Byte-slice helpers

\* data[from:to] with Go's 0-based half-open bounds (callers check bounds)
Slice(data, from, to) == SubSeq(data, from + 1, to)

\* data[from:]
SliceFrom(data, from) == SubSeq(data, from + 1, Len(data))

RECURSIVE LittleEndian(_)
\* little-endian unsigned integer of a byte slice
LittleEndian(data) ==
  IF data = <<>> THEN 0 ELSE Head(data) + 256 * LittleEndian(Tail(data))

\* binary.LittleEndian.Uint16(data[pos:]) etc.; callers check the length
UintAt(data, pos, width) == LittleEndian(Slice(data, pos, pos + width))

FixedLengthInt(data) == LittleEndian(data)

\* LengthEncodedInt returns (value, isNull, bytes consumed)
LengthEncodedInt(data) ==
  IF Len(data) = 0 THEN [num |-> 0, isNull |-> TRUE, n |-> 1]
  ELSE LET b == data[1] IN
    IF b <= 250 THEN [num |-> b, isNull |-> FALSE, n |-> 1]
    ELSE IF b = 251 THEN [num |-> 0, isNull |-> TRUE, n |-> 1]
    ELSE IF b = 252 /\ Len(data) >= 3
      THEN [num |-> UintAt(data, 1, 2), isNull |-> FALSE, n |-> 3]
    ELSE IF b = 253 /\ Len(data) >= 4
      THEN [num |-> UintAt(data, 1, 3), isNull |-> FALSE, n |-> 4]
    ELSE IF b = 254 /\ Len(data) >= 9
      THEN [num |-> UintAt(data, 1, 8), isNull |-> FALSE, n |-> 9]
    ELSE [num |-> 0, isNull |-> TRUE, n |-> 1]

\* LengthEncodedString returns (bytes, isNull, bytes consumed, err)
LengthEncodedString(data) ==
  LET l == LengthEncodedInt(data) IN
  IF l.isNull THEN [str |-> <<>>, isNull |-> TRUE, n |-> l.n, err |-> NoErr]
  ELSE IF l.n + l.num > Len(data)
    THEN [str |-> <<>>, isNull |-> FALSE, n |-> l.n, err |-> EOF]
  ELSE [str |-> Slice(data, l.n, l.n + l.num), isNull |-> FALSE,
        n |-> l.n + l.num, err |-> NoErr]

bitmapByteSize(columnCount) == (columnCount + 7) \div 8


\* ------------------------------------------------------------------------
\* CRC-32 (IEEE) over bytes; a 32-bit word is its four little-endian bytes.

RECURSIVE XorBits(_, _, _)
\* bitwise exclusive or of the low `bits` bits of a and b
XorBits(a, b, bits) ==
  IF bits = 0 THEN 0
  ELSE ((a + b) % 2) + 2 * XorBits(a \div 2, b \div 2, bits - 1)

Xor4 == [a \in 0..15 |-> [b \in 0..15 |-> XorBits(a, b, 4)]]

Xor8(a, b) == 16 * Xor4[a \div 16][b \div 16] + Xor4[a % 16][b % 16]

XorWord(x, y) == [i \in 1..4 |-> Xor8(x[i], y[i])]

\* x >> 1 on a little-endian word
ShiftRight1(x) ==
  [i \in 1..4 |-> (x[i] \div 2) + (IF i < 4 THEN 128 * (x[i + 1] % 2) ELSE 0)]

\* x >> 8 on a little-endian word
ShiftRight8(x) == <<x[2], x[3], x[4], 0>>

\* the reversed IEEE polynomial 0xEDB88320
crcPoly == <<32, 131, 184, 237>>

RECURSIVE crcTableEntry(_, _)
crcTableEntry(c, k) ==
  IF k = 0 THEN c
  ELSE crcTableEntry(IF c[1] % 2 = 1 THEN XorWord(crcPoly, ShiftRight1(c))
                     ELSE ShiftRight1(c), k - 1)

crcTable == [n \in 0..255 |-> crcTableEntry(<<n, 0, 0, 0>>, 8)]

\* one byte of the table-driven update
crcStep(crc, b) == XorWord(crcTable[Xor8(crc[1], b)], ShiftRight8(crc))

RECURSIVE crcUpdate(_, _, _, _)
\* the update over data[lo..hi], by halves; the test on the left half has
\* it evaluated before the right half starts, which keeps the evaluation
\* shallow
crcUpdate(crc, data, lo, hi) ==
  IF lo > hi THEN crc
  ELSE IF lo = hi THEN crcStep(crc, data[lo])
  ELSE LET mid == (lo + hi) \div 2
           left == crcUpdate(crc, data, lo, mid)
       IN IF Len(left) = 4 THEN crcUpdate(left, data, mid + 1, hi) ELSE left

\* crc32.ChecksumIEEE(data) as four little-endian bytes
ChecksumIEEE(data) ==
  XorWord(crcUpdate(<<255, 255, 255, 255>>, data, 1, Len(data)),
          <<255, 255, 255, 255>>)

\* ChecksumValidate(checksumType, expected, data): the stored value must be
\* the CRC-32 of data.
ChecksumValidate(checksumType, expected, data) ==
  expected = ChecksumIEEE(data)

\* ------------------------------------------------------------------------
\* Server version and checksum presence

IsDigit(b) == b >= 48 /\ b <= 57

RECURSIVE ParseNumber(_, _, _)
\* the decimal number at data[i..], with the index after it
ParseNumber(data, i, acc) ==
  IF i <= Len(data) /\ IsDigit(data[i])
    THEN ParseNumber(data, i + 1, 10 * acc + (data[i] - 48))
    ELSE [val |-> acc, next |-> i]

\* the (major, minor, patch) triple a version string starts with
ParseVersion(version) ==
  LET major == ParseNumber(version, 1, 0)
      minor == ParseNumber(version, major.next + 1, 0)
      patch == ParseNumber(version, minor.next + 1, 0)
  IN <<major.val, minor.val, patch.val>>

\* hasChecksum(version): checksums exist from MySQL 5.6.1 on
hasChecksum(version) ==
  LET v == ParseVersion(version) IN
    \/ v[1] > 5
    \/ v[1] = 5 /\ v[2] > 6
    \/ v[1] = 5 /\ v[2] = 6 /\ v[3] >= 1

RECURSIVE TrimLeft(_, _)
TrimLeft(data, cut) ==
  IF data # <<>> /\ Head(data) \in cut THEN TrimLeft(Tail(data), cut) ELSE data

RECURSIVE TrimRight(_, _)
TrimRight(data, cut) ==
  IF data # <<>> /\ data[Len(data)] \in cut
    THEN TrimRight(SubSeq(data, 1, Len(data) - 1), cut) ELSE data

\* bytes.Trim(data, cutset)
Trim(data, cut) == TrimRight(TrimLeft(data, cut), cut)

\* strconv.Itoa(0x00) is the string "0": the cutset is the digit zero
itoaZeroCutset == {48}

\* the ASCII white space of strings.TrimSpace: \t \n \v \f \r and space
asciiSpace == {9, 10, 11, 12, 13, 32}

\* the UTF-8 encodings of the other runes of unicode.IsSpace: U+0085,
\* U+00A0, U+1680, U+2000..U+200A, U+2028, U+2029, U+202F, U+205F, U+3000
unicodeSpace ==
  {<<194, 133>>, <<194, 160>>, <<225, 154, 128>>, <<226, 128, 168>>,
   <<226, 128, 169>>, <<226, 128, 175>>, <<226, 129, 159>>, <<227, 128, 128>>}
    \cup {<<226, 128, b>> : b \in 128..138}

\* the width of the white-space rune data starts with (0: none); a byte
\* that starts no such encoding decodes to a rune that is no space
leadingSpaceWidth(data) ==
  IF data = <<>> THEN 0
  ELSE IF data[1] \in asciiSpace THEN 1
  ELSE IF \E e \in unicodeSpace :
            Len(e) <= Len(data) /\ SubSeq(data, 1, Len(e)) = e
    THEN Len(CHOOSE e \in unicodeSpace :
               Len(e) <= Len(data) /\ SubSeq(data, 1, Len(e)) = e)
  ELSE 0

\* the width of the white-space rune data ends with (0: none)
trailingSpaceWidth(data) ==
  IF data = <<>> THEN 0
  ELSE IF data[Len(data)] \in asciiSpace THEN 1
  ELSE IF \E e \in unicodeSpace :
            /\ Len(e) <= Len(data)
            /\ SubSeq(data, Len(data) - Len(e) + 1, Len(data)) = e
    THEN Len(CHOOSE e \in unicodeSpace :
               /\ Len(e) <= Len(data)
               /\ SubSeq(data, Len(data) - Len(e) + 1, Len(data)) = e)
  ELSE 0

RECURSIVE TrimSpaceLeft(_)
TrimSpaceLeft(data) ==
  IF leadingSpaceWidth(data) = 0 THEN data
  ELSE TrimSpaceLeft(SubSeq(data, leadingSpaceWidth(data) + 1, Len(data)))

RECURSIVE TrimSpaceRight(_)
TrimSpaceRight(data) ==
  IF trailingSpaceWidth(data) = 0 THEN data
  ELSE TrimSpaceRight(SubSeq(data, 1, Len(data) - trailingSpaceWidth(data)))

\* strings.TrimSpace on the bytes of a string: leading and trailing Unicode
\* white space is cut off
TrimSpace(data) == TrimSpaceRight(TrimSpaceLeft(data))

\* ------------------------------------------------------------------------
\* Byte source

\* ReadNBytes(rd, size) on the bytes left of the stream: the bytes, or
\* io.EOF when nothing is left, or io.ErrUnexpectedEOF on a short read.
ReadNBytes(rest, size) ==
  IF size < 0 THEN [data |-> <<>>, err |-> ErrPanic]
  ELSE IF size = 0 THEN [data |-> <<>>, err |-> NoErr]
  ELSE IF Len(rest) = 0 THEN [data |-> <<>>, err |-> EOF]
  ELSE IF Len(rest) < size THEN [data |-> <<>>, err |-> ErrUnexpectedEOF]
  ELSE [data |-> SubSeq(rest, 1, size), err |-> NoErr]

\* ------------------------------------------------------------------------
\* Event header codec

NoHeader ==
  [Timestamp |-> 0, EventType |-> 0, ServerID |-> 0, EventSize |-> 0,
   LogPos |-> 0, Flag |-> 0]

decodeEventHeader(data, size) ==
  IF Len(data) < size
    THEN [header |-> NoHeader, err |-> "invalid event header size"]
  ELSE IF Len(data) < legacyEventHeaderSize
            \/ (size > legacyEventHeaderSize /\ Len(data) < defaultEventHeaderSize)
    THEN [header |-> NoHeader, err |-> ErrPanic]
  ELSE
    [header |->
       [Timestamp |-> UintAt(data, 0, 4),
        EventType |-> data[5],
        ServerID  |-> UintAt(data, 5, 4),
        EventSize |-> UintAt(data, 9, 4),
        LogPos    |-> IF size > legacyEventHeaderSize THEN UintAt(data, 13, 4) ELSE 0,
        Flag      |-> IF size > legacyEventHeaderSize THEN UintAt(data, 17, 2) ELSE 0],
     err |-> NoErr]

\* ------------------------------------------------------------------------
\* Window filter.  A time.Time option is [isZero, unix]; the zero time's
\* Unix() is -62135596800, below every header timestamp (an unsigned 32-bit
\* value), which is all the comparisons below need of it.

ZeroTime == [isZero |-> TRUE, unix |-> 0]

TimeAt(sec) == [isZero |-> FALSE, unix |-> sec]

\* t.Unix() <= time.Unix(timestamp, 0).Unix()
UnixNotAfter(t, timestamp) == t.isZero \/ t.unix <= timestamp

\* BinReaderOption.Start
Start(option, header) ==
  IF option = Nil THEN TRUE
  ELSE IF option.StartPos # 0
          /\ option.StartPos <= header.LogPos - header.EventSize THEN TRUE
  ELSE IF UnixNotAfter(option.StartTime, header.Timestamp) THEN TRUE
  ELSE FALSE

\* Stop with an inclusive end position: the variant C3 rules out
StopInclusive(option, header) ==
  IF option = Nil THEN FALSE
  ELSE IF option.EndPos # 0 /\ option.EndPos <= header.LogPos THEN TRUE
  ELSE IF ~option.EndTime.isZero
          /\ UnixNotAfter(option.EndTime, header.Timestamp) THEN TRUE
  ELSE FALSE

\* BinReaderOption.Stop
Stop(option, header) ==
  IF option = Nil THEN FALSE
  ELSE IF option.EndPos # 0 /\ option.EndPos < header.LogPos THEN TRUE
  ELSE IF ~option.EndTime.isZero
          /\ UnixNotAfter(option.EndTime, header.Timestamp) THEN TRUE
  ELSE FALSE

\* ------------------------------------------------------------------------
\* Validator

\* a validation that splits the checksum off without comparing it: the
\* variant C12 rules out
ValidationUnchecked(desc, evHeader, header, body) ==
  IF desc # Nil /\ desc.hasCheckSum /\ Len(body) > binlogChecksumLength
    THEN [body |-> Slice(body, 0, Len(body) - binlogChecksumLength),
          err |-> NoErr,
          ChecksumType |-> body[Len(body) - binlogChecksumLength],
          ChecksumVal |-> SliceFrom(body, Len(body) - binlogChecksumLength)]
  ELSE [body |-> body, err |-> NoErr, ChecksumType |-> 0, ChecksumVal |-> <<>>]

\* BinEvent.Validation(bin, header, body) with bin.description = desc
Validation(desc, evHeader, header, body) ==
  LET plain == [body |-> body, err |-> NoErr, ChecksumType |-> 0,
                ChecksumVal |-> <<>>]
  IN
  IF Len(body) + Len(header) # evHeader.EventSize
    THEN [plain EXCEPT !.err = "event size"]
  ELSE IF desc # Nil /\ desc.hasCheckSum
    THEN LET index == Len(body) - binlogChecksumLength - 1 IN
      IF index < 0 THEN [plain EXCEPT !.err = ErrPanic]
      ELSE LET typ     == body[index + 1]
               val     == SliceFrom(body, index + 1)
               trimmed == Slice(body, 0, index + 1)
           IN [body |-> trimmed,
               err |-> IF ~ChecksumValidate(typ, val, header \o trimmed)
                          \/ Len(val) # 4
                         THEN "binlog checksum validation failed" ELSE NoErr,
               ChecksumType |-> typ,
               ChecksumVal |-> val]
  ELSE plain

\* ------------------------------------------------------------------------
\* Body decoders.  Each returns [body, err]; body is Nil when the decoder
\* returns no event.

Panicked == [body |-> Nil, err |-> ErrPanic]

decodeFmtDescEvent(data) ==
  IF Len(data) < 2 + serverVersionLength + 4 + 1 THEN Panicked
  ELSE LET version == Trim(Slice(data, 2, 2 + serverVersionLength), itoaZeroCutset)
       IN [body |->
             [kind |-> "FmtDesc",
              BinlogVersion |-> UintAt(data, 0, 2),
              MySQLVersion |-> version,
              hasCheckSum |-> hasChecksum(version),
              CreateTime |-> UintAt(data, 2 + serverVersionLength, 4),
              EventHeaderLength |-> data[2 + serverVersionLength + 4 + 1],
              EventTypeHeader |-> SliceFrom(data, 2 + serverVersionLength + 4 + 1)],
           err |-> NoErr]

decodeQueryEvent(data, binlogVersion) ==
  IF Len(data) < 11 THEN Panicked
  ELSE
    LET schemaLength == data[9]
        hasVars == binlogVersion >= 4
        varsLen == IF hasVars /\ Len(data) >= 13 THEN UintAt(data, 11, 2) ELSE 0
        pos == IF hasVars THEN 13 + varsLen ELSE 11
    IN
    IF (hasVars /\ Len(data) < 13) \/ pos + schemaLength + 1 > Len(data)
      THEN Panicked
    ELSE [body |->
            [kind |-> "Query",
             SlaveProxyID |-> UintAt(data, 0, 4),
             ExecutionTime |-> UintAt(data, 4, 4),
             ErrorCode |-> UintAt(data, 9, 2),
             statusVarsLength |-> varsLen,
             StatusVars |-> IF hasVars THEN Slice(data, 13, 13 + varsLen) ELSE <<>>,
             Schema |-> Slice(data, pos, pos + schemaLength),
             Query |-> SliceFrom(data, pos + schemaLength + 1)],
          err |-> NoErr]

decodeXIDEvent(data) ==
  IF Len(data) < 8 THEN Panicked
  ELSE [body |-> [kind |-> "XID", XID |-> UintAt(data, 0, 8)], err |-> NoErr]

decodeIntvarEvent(data) ==
  IF Len(data) < 9 THEN Panicked
  ELSE [body |-> [kind |-> "Intvar", Type |-> data[1], Value |-> UintAt(data, 1, 8)],
        err |-> NoErr]

decodeRotateEvent(data, binlogVersion) ==
  IF binlogVersion > 1 /\ Len(data) < 8 THEN Panicked
  ELSE LET pos == IF binlogVersion > 1 THEN 8 ELSE 0 IN
    [body |-> [kind |-> "Rotate",
               Position |-> IF binlogVersion > 1 THEN UintAt(data, 0, 8) ELSE 0,
               FileName |-> TrimSpace(SliceFrom(data, pos))],
     err |-> NoErr]

decodeUnSupportEvent(data) ==
  [body |-> [kind |-> "UnParsed", Data |-> data], err |-> NoErr]

\* BinTableMapEvent.Init / BinRowsEvent.Init: the width of the table id
tableIDLen(h, eventType) ==
  IF h.EventTypeHeader[eventType] = 6 THEN 4 ELSE 6

\* BinRowsEvent.Init: the version of a rows event type
rowsVersion(eventType) ==
  IF eventType \in {WriteRowsEventV0, UpdateRowsEventV0, DeleteRowsEventV0} THEN 0
  ELSE IF eventType \in {WriteRowsEventV1, UpdateRowsEventV1, DeleteRowsEventV1} THEN 1
  ELSE IF eventType \in {WriteRowsEventV2, UpdateRowsEventV2, DeleteRowsEventV2} THEN 2
  ELSE 0

NoColumnType ==
  [columnType |-> 0, maxLength |-> 0, lengthSize |-> 0, precision |-> 0,
   decimals |-> 0, size |-> 0, bytes |-> 0, bits |-> 0, fsp |-> 0]

\* the number of metadata bytes decodeMeta reads for a column of type t
\* (-1: the type is unknown)
metaWidth(t) ==
  IF t \in {MySQLTypeString, MySQLTypeVarString, MySQLTypeVarchar,
            MySQLTypeDecimal, MySQLTypeBit, MySQLTypeNewDecimal} THEN 2
  ELSE IF t \in {MySQLTypeBlob, MySQLTypeGeometry, MySQLTypeDouble,
                 MySQLTypeFloat, MySQLTypeMediumBlob, MySQLTypeTinyBlob,
                 MySQLTypeLongBlob, MySQLTypeJSON, MySQLTypeTime2,
                 MySQLTypeDatetime2, MySQLTypeTimestamp2} THEN 1
  ELSE IF t \in {MySQLTypeDate, MySQLTypeDatetime, MySQLTypeTimestamp,
                 MySQLTypeTime, MySQLTypeTiny, MySQLTypeShort, MySQLTypeInt24,
                 MySQLTypeLong, MySQLTypeLonglong, MySQLTypeNull,
                 MySQLTypeYear, MySQLTypeNewDate} THEN 0
  ELSE -1

\* one iteration of decodeMeta's loop: the metadata record of a column of
\* type t whose metadata starts at data[pos]
columnMeta(t, data, pos) ==
  IF t = MySQLTypeString THEN
    LET fieldType == data[pos + 1]
        fieldLength == data[pos + 2]
        metadata == fieldType * 256 + fieldLength
    IN IF fieldType \in {MySQLTypeEnum, MySQLTypeSet}
         THEN [NoColumnType EXCEPT !.columnType = fieldType,
                                   !.size = metadata % 256]
         ELSE [NoColumnType EXCEPT
                 !.maxLength = ((3 - ((metadata \div 4096) % 4)) * 256
                                + (metadata % 256)) % 65536]
  ELSE IF t \in {MySQLTypeVarString, MySQLTypeVarchar, MySQLTypeDecimal} THEN
    [NoColumnType EXCEPT !.maxLength = UintAt(data, pos, 2)]
  ELSE IF t = MySQLTypeBit THEN
    LET bits == (data[pos + 2] * 8 + data[pos + 1]) % 256 IN
    [NoColumnType EXCEPT !.bits = bits, !.bytes = ((bits + 7) % 256) \div 8]
  ELSE IF t = MySQLTypeNewDecimal THEN
    [NoColumnType EXCEPT !.precision = data[pos + 1], !.decimals = data[pos + 2]]
  ELSE IF t \in {MySQLTypeTime2, MySQLTypeDatetime2, MySQLTypeTimestamp2} THEN
    [NoColumnType EXCEPT !.fsp = data[pos + 1]]
  ELSE IF metaWidth(t) = 1 THEN
    [NoColumnType EXCEPT !.lengthSize = data[pos + 1]]
  ELSE NoColumnType

RECURSIVE decodeMetaFrom(_, _, _, _, _)
decodeMetaFrom(types, data, i, pos, acc) ==
  IF i > Len(types) THEN [meta |-> acc, err |-> NoErr]
  ELSE LET w == metaWidth(types[i]) IN
    IF w < 0 THEN [meta |-> acc, err |-> "unknown FieldType"]
    ELSE IF pos + w > Len(data) THEN [meta |-> acc, err |-> ErrPanic]
    ELSE decodeMetaFrom(types, data, i + 1, pos + w,
                        Append(acc, columnMeta(types[i], data, pos)))

\* BinTableMapEvent.decodeMeta
decodeMeta(types, data) == decodeMetaFrom(types, data, 1, 0, <<>>)

\* decodeTableMapEvent(data, h)
decodeTableMapEvent(data, h) ==
  IF h = Nil THEN Panicked
  ELSE IF Len(h.EventTypeHeader) < TableMapEvent THEN Panicked
  ELSE
    LET idLen == tableIDLen(h, TableMapEvent)
        schemaAt == idLen + 2
    IN
    IF Len(data) <= schemaAt THEN Panicked
    ELSE
      LET schemaLength == data[schemaAt + 1]
          tableAt == schemaAt + 1 + schemaLength + 1
      IN
      IF Len(data) <= tableAt THEN Panicked
      ELSE
        LET tableLength == data[tableAt + 1]
            countAt == tableAt + 1 + tableLength + 1
        IN
        IF Len(data) < countAt THEN Panicked
        ELSE
          LET count == LengthEncodedInt(SliceFrom(data, countAt))
              typesAt == countAt + count.n
              metaAt == typesAt + count.num
          IN
          IF Len(data) < metaAt THEN Panicked
          ELSE
            LET types == Slice(data, typesAt, metaAt)
                metaData == LengthEncodedString(SliceFrom(data, metaAt))
                meta == decodeMeta(types, metaData.str)
                bitmapAt == metaAt + metaData.n
                event == [kind |-> "TableMap",
                          TableID |-> FixedLengthInt(Slice(data, 0, idLen)),
                          tableIDLen |-> idLen,
                          Flags |-> UintAt(data, idLen, 2),
                          Schema |-> Slice(data, schemaAt + 1,
                                           schemaAt + 1 + schemaLength),
                          Table |-> Slice(data, tableAt + 1,
                                          tableAt + 1 + tableLength),
                          ColumnCount |-> count.num,
                          ColumnTypeDef |-> types,
                          ColumnMetaDef |-> meta.meta,
                          NullBitmap |-> <<>>]
            IN
            IF metaData.err # NoErr THEN [body |-> Nil, err |-> metaData.err]
            ELSE IF meta.err # NoErr THEN [body |-> Nil, err |-> meta.err]
            ELSE IF Len(data) < bitmapAt THEN Panicked
            ELSE IF Len(data) - bitmapAt = bitmapByteSize(count.num)
              THEN [body |-> [event EXCEPT !.NullBitmap = SliceFrom(data, bitmapAt)],
                    err |-> NoErr]
            ELSE [body |-> event, err |-> EOF]

\* a second bitmap for the Update variant of every version: the variant
\* C13 rules out
hasBitmap2AnyUpdate(typ) ==
  typ \in {UpdateRowsEventV0, UpdateRowsEventV1, UpdateRowsEventV2}

\* whether typ carries the second columns-present bitmap
hasBitmap2(typ) == typ = UpdateRowsEventV1 \/ typ = UpdateRowsEventV2

\* decodeRowsEvent(data, h, typ); spare are the bytes between len(data) and
\* cap(data) (the checksum Validation cut off), which a Go slice expression
\* data[a:b] may reach
decodeRowsEvent(data, spare, h, typ) ==
  IF h = Nil THEN Panicked
  ELSE IF typ < 1 \/ Len(h.EventTypeHeader) < typ THEN Panicked
  ELSE
    LET idLen == tableIDLen(h, typ)
        version == rowsVersion(typ)
        extraAt == idLen + 2
    IN
    IF Len(data) < extraAt \/ (version = 2 /\ Len(data) < extraAt + 2) THEN Panicked
    ELSE
      LET extraDataLen == IF version = 2 THEN UintAt(data, extraAt, 2) ELSE 0
          extraLen == IF version = 2 THEN (extraDataLen - 2) % 65536 ELSE 0
          extraFrom == IF version = 2 THEN extraAt + 2 ELSE extraAt
          countAt == extraFrom + extraLen
      IN
      IF Len(data) < countAt THEN Panicked
      ELSE
        LET count == LengthEncodedInt(SliceFrom(data, countAt))
            bitmap1At == countAt + count.n
            bitCount == bitmapByteSize(count.num)
            bitmap2At == bitmap1At + bitCount
            endAt == IF hasBitmap2(typ) THEN bitmap2At + bitCount ELSE bitmap2At
            all == data \o spare
        IN
        IF Len(all) < endAt THEN Panicked
        ELSE [body |->
                [kind |-> "Rows",
                 Version |-> version,
                 TableID |-> FixedLengthInt(Slice(data, 0, idLen)),
                 tableIDLen |-> idLen,
                 Flags |-> UintAt(data, idLen, 2),
                 ExtraData |-> Slice(data, extraFrom, countAt),
                 ColumnCount |-> count.num,
                 ColumnsBitmap1 |-> Slice(all, bitmap1At, bitmap2At),
                 ColumnsBitmap2 |-> IF hasBitmap2(typ)
                                      THEN Slice(all, bitmap2At, endAt) ELSE <<>>,
                 hasBitmap2 |-> hasBitmap2(typ)],
              err |-> NoErr]

\* ------------------------------------------------------------------------
\* DecodeEvent

\* a registry that keeps the first table map of an id: the variant C9
\* rules out
registerTableKeepFirst(tables, body) ==
  [id \in DOMAIN tables \cup {body.TableID} |->
     IF id \in DOMAIN tables THEN tables[id] ELSE body]

\* decoder.tableInfo[body.TableID] = body
registerTable(tables, body) ==
  [id \in DOMAIN tables \cup {body.TableID} |->
     IF id = body.TableID THEN body ELSE tables[id]]

\* a header width that ignores the format description: the variant C10
\* rules out
eventHeaderLengthFixed(desc) == defaultEventHeaderSize

\* the header width DecodeEvent reads with
eventHeaderLength(desc) ==
  IF desc # Nil THEN desc.EventHeaderLength ELSE defaultEventHeaderSize

\* a type check that lets every code through: the variant C8 rules out
isKnownEventTypeAlways(eventType) == TRUE

\* whether the event type is a key of EventType2Str
isKnownEventType(eventType) == eventType \in KnownEventTypes

\* a skip test without the Format-Description exemption: the variant C4
\* rules out
notStartedAnyType(option, header) == ~Start(option, header)

\* the skip test of DecodeEvent: the event is dropped before validation
notStarted(option, header) ==
  header.EventType # FormatDescriptionEvent /\ ~Start(option, header)

\* the switch of DecodeEvent on the event type: [body, err, desc, tables]
\* with the decode context as the case leaves it
decodeBody(eventType, data, spare, desc, tables) ==
  LET keep(r) == [body |-> r.body, err |-> r.err, desc |-> desc, tables |-> tables]
  IN
  IF eventType = FormatDescriptionEvent THEN
    LET r == decodeFmtDescEvent(data) IN
    IF r.err = ErrPanic THEN keep(r)
    ELSE [body |-> r.body, err |-> r.err, desc |-> r.body, tables |-> tables]
  ELSE IF eventType = QueryEvent THEN
    IF desc = Nil THEN keep(Panicked)
    ELSE keep(decodeQueryEvent(data, desc.BinlogVersion))
  ELSE IF eventType = XIDEvent THEN keep(decodeXIDEvent(data))
  ELSE IF eventType = IntvarEvent THEN keep(decodeIntvarEvent(data))
  ELSE IF eventType = RotateEvent THEN
    IF desc = Nil THEN keep(Panicked)
    ELSE keep(decodeRotateEvent(data, desc.BinlogVersion))
  ELSE IF eventType = TableMapEvent THEN
    LET r == decodeTableMapEvent(data, desc) IN
    IF r.err # NoErr THEN keep([body |-> Nil, err |-> r.err])
    ELSE [body |-> r.body, err |-> NoErr, desc |-> desc,
          tables |-> registerTable(tables, r.body)]
  ELSE IF eventType \in RowsEventTypes THEN
    keep(decodeRowsEvent(data, spare, desc, eventType))
  ELSE IF eventType \in {PreviousGTIDEvent, AnonymousGTIDEvent} THEN
    keep(decodeUnSupportEvent(data))
  ELSE IF eventType = UnknownEvent THEN
    keep([body |-> Nil, err |-> "got unknown event"])
  ELSE keep([body |-> Nil, err |-> "not support event"])

\* What DecodeEvent hands back: the returned (event, err), the number of
\* bytes read, the decode context afterwards, the width the header was read
\* with and the decoded header (NoHeader before a header is decoded)
decodeReturn(event, err, read, desc, tables, width, header) ==
  [event |-> event, err |-> err, read |-> read, desc |-> desc,
   tables |-> tables, width |-> width, header |-> header]

\* DecodeEvent after the switch: d is what the case of the event type left
afterSwitch(d, event, width) ==
  IF d.err # NoErr
    THEN decodeReturn(Nil, d.err, event.Header.EventSize, d.desc, d.tables,
                      width, event.Header)
  ELSE decodeReturn([event EXCEPT !.Body = d.body], NoErr,
                    event.Header.EventSize, d.desc, d.tables, width,
                    event.Header)

\* DecodeEvent after event.Validation returned v
afterValidation(v, header, width, desc, tables) ==
  IF v.err # NoErr
    THEN decodeReturn([Header |-> header, Body |-> Nil,
                       ChecksumType |-> v.ChecksumType,
                       ChecksumVal |-> v.ChecksumVal],
                      v.err, header.EventSize, desc, tables, width, header)
  ELSE afterSwitch(decodeBody(header.EventType, v.body, v.ChecksumVal, desc, tables),
                   [Header |-> header, Body |-> Nil,
                    ChecksumType |-> v.ChecksumType,
                    ChecksumVal |-> v.ChecksumVal],
                   width)

\* DecodeEvent after ReadNBytes returned the body: the start filter, then
\* validation
afterBody(body, header, headerData, restLen, width, desc, tables, option) ==
  IF body.err # NoErr
    THEN decodeReturn(Nil, body.err,
                      IF body.err = ErrUnexpectedEOF THEN restLen ELSE width,
                      desc, tables, width, header)
  ELSE IF notStarted(option, header)
    THEN decodeReturn(Nil, NoErr, header.EventSize, desc, tables, width, header)
  ELSE afterValidation(Validation(desc, header, headerData, body.data),
                       header, width, desc, tables)

\* DecodeEvent after decodeEventHeader returned h: the type check, then the
\* read of the body
afterHeader(h, headerData, rest, width, desc, tables, option) ==
  IF h.err # NoErr
    THEN decodeReturn(Nil, h.err, width, desc, tables, width, NoHeader)
  ELSE IF ~isKnownEventType(h.header.EventType)
    THEN decodeReturn(Nil, "got unknown event type", width, desc, tables,
                      width, h.header)
  ELSE afterBody(ReadNBytes(SliceFrom(rest, width), h.header.EventSize - width),
                 h.header, headerData, Len(rest), width, desc, tables, option)

\* DecodeEvent after ReadNBytes returned the header bytes
afterHeaderData(headerData, rest, width, desc, tables, option) ==
  IF headerData.err # NoErr
    THEN decodeReturn(Nil, headerData.err,
                      IF headerData.err = ErrUnexpectedEOF THEN Len(rest) ELSE 0,
                      desc, tables, width, NoHeader)
  ELSE afterHeader(decodeEventHeader(headerData.data, width), headerData.data,
                   rest, width, desc, tables, option)

\* BinFileDecoder.DecodeEvent on the unread bytes `rest` of the stream with
\* the decode context (desc, tables)
DecodeEvent(rest, desc, tables, option) ==
  afterHeaderData(ReadNBytes(rest, eventHeaderLength(desc)), rest,
                  eventHeaderLength(desc), desc, tables, option)

\* ------------------------------------------------------------------------
\* Input streams.  A plan is a sequence of event descriptors; Encode lays it
\* out as the bytes of a binlog file after the magic header: events back to
\* back, each with the header width and checksum suffix announced by the
\* format description before it, logPos the absolute end offset of the
\* event and timestamps rising by one second per event.

\* the timestamp of the first event
TimeBase == 100

\* the length of the file's magic header, which init() has consumed
magicLength == 4

RECURSIVE LEBytes(_, _)
\* v as n little-endian bytes
LEBytes(v, n) == IF n = 0 THEN <<>> ELSE <<v % 256>> \o LEBytes(v \div 256, n - 1)

Zeros(n) == [i \in 1..n |-> 0]

\* the server version field: "5.7.0" (checksums) or "5.5.0" (none)
VersionBytes(csum) ==
  <<53, 46, IF csum THEN 55 ELSE 53, 46, 48>> \o Zeros(serverVersionLength - 5)

\* the per-type post-header lengths of a format description; idHeader is
\* the entry of the table-map and rows events (6: 4-byte table ids)
PostHeaderLengths(idHeader) ==
  [t \in 1..LastEventType |->
     IF t = TableMapEvent \/ t \in RowsEventTypes THEN idHeader
     ELSE IF t = QueryEvent THEN 13
     ELSE IF t = RotateEvent THEN 8
     ELSE 0]

FDE(hl, csum, idHeader) ==
  [k |-> "fde", typ |-> FormatDescriptionEvent, hl |-> hl, csum |-> csum,
   idHeader |-> idHeader, badCrc |-> FALSE]

\* a table map of table `id` with column types `types`, their metadata
\* bytes `meta` and `extra` bytes after the null bitmap
TMap(id, name, types, meta, extra) ==
  [k |-> "tmap", typ |-> TableMapEvent, id |-> id, name |-> name,
   types |-> types, meta |-> meta, extra |-> extra, badCrc |-> FALSE]

\* a rows event of type typ on table `id` with nc columns
Rows(typ, id, nc) ==
  [k |-> "rows", typ |-> typ, id |-> id, nc |-> nc, badCrc |-> FALSE]

\* an event of type typ with the given body bytes
Raw(typ, body) == [k |-> "raw", typ |-> typ, body |-> body, badCrc |-> FALSE]

Xid(x) == Raw(XIDEvent, LEBytes(x, 8))

\* the layout in force: the next event's offset, header width, checksum
\* suffix, table-id width and index
StartLayout ==
  [off |-> magicLength, hw |-> defaultEventHeaderSize, csum |-> FALSE,
   idLen |-> 6, n |-> 1]

EncodeBody(d, lay) ==
  IF d.k = "fde" THEN
    <<4, 0>> \o VersionBytes(d.csum) \o LEBytes(0, 4) \o <<d.hl>>
      \o PostHeaderLengths(d.idHeader) \o (IF d.csum THEN <<1>> ELSE <<>>)
  ELSE IF d.k = "tmap" THEN
    LEBytes(d.id, lay.idLen) \o <<1, 0>> \o <<1, 100, 0>>
      \o <<Len(d.name)>> \o d.name \o <<0>>
      \o <<Len(d.types)>> \o d.types \o <<Len(d.meta)>> \o d.meta
      \o Zeros(bitmapByteSize(Len(d.types))) \o Zeros(d.extra)
  ELSE IF d.k = "rows" THEN
    LEBytes(d.id, lay.idLen) \o <<1, 0>>
      \o (IF rowsVersion(d.typ) = 2 THEN <<2, 0>> ELSE <<>>)
      \o <<d.nc>> \o [i \in 1..bitmapByteSize(d.nc) |-> 255]
      \o (IF d.typ \in {UpdateRowsEventV1, UpdateRowsEventV2}
            THEN [i \in 1..bitmapByteSize(d.nc) |-> 255] ELSE <<>>)
      \o <<7, 7, 7, 7>>
  ELSE d.body

EncodeHeader(timestamp, typ, size, logPos, hw) ==
  LEBytes(timestamp, 4) \o <<typ>> \o LEBytes(1, 4) \o LEBytes(size, 4)
    \o (IF hw > legacyEventHeaderSize
          THEN LEBytes(logPos, 4) \o <<0, 0>> \o Zeros(hw - defaultEventHeaderSize)
          ELSE Zeros(hw - legacyEventHeaderSize))

\* whether event d carries the checksum suffix
Checksummed(d, lay) == IF d.k = "fde" THEN d.csum ELSE lay.csum

EncodeEvent(d, lay) ==
  LET body == EncodeBody(d, lay)
      size == lay.hw + Len(body)
                + (IF Checksummed(d, lay) THEN binlogChecksumLength ELSE 0)
      header == EncodeHeader(TimeBase + lay.n - 1, d.typ, size, lay.off + size, lay.hw)
      crc == ChecksumIEEE(header \o body)
  IN header \o body
       \o (IF ~Checksummed(d, lay) THEN <<>>
           ELSE IF d.badCrc THEN <<(crc[1] + 1) % 256, crc[2], crc[3], crc[4]>>
           ELSE crc)

\* the layout after event d
NextLayout(d, lay) ==
  LET size == Len(EncodeEvent(d, lay)) IN
  IF d.k = "fde"
    THEN [off |-> lay.off + size, hw |-> d.hl, csum |-> d.csum,
          idLen |-> IF d.idHeader = 6 THEN 4 ELSE 6, n |-> lay.n + 1]
    ELSE [lay EXCEPT !.off = lay.off + size, !.n = lay.n + 1]

RECURSIVE LayoutAt(_, _)
\* the layout in force for event i of the plan
LayoutAt(plan, i) ==
  IF i = 1 THEN StartLayout ELSE NextLayout(plan[i - 1], LayoutAt(plan, i - 1))

RECURSIVE EncodeFrom(_, _, _)
EncodeFrom(plan, i, lay) ==
  IF i > Len(plan) THEN <<>>
  ELSE EncodeEvent(plan[i], lay) \o EncodeFrom(plan, i + 1, NextLayout(plan[i], lay))

\* the bytes of the file after its magic header
Encode(plan) == EncodeFrom(plan, 1, StartLayout)

\* ------------------------------------------------------------------------
\* State

VARIABLES
  plan,         \* the descriptors the stream was laid out from (input)
  stream,       \* the bytes of the file after the magic header (input)
  option,       \* decoder.Option: Nil or a BinReaderOption (input)
  pos,          \* the number of stream bytes read so far
  description,  \* decoder.description: Nil or the adopted format description
  tableInfo,    \* decoder.tableInfo: table id -> table map
  pc,           \* "decode": WalkEvent is about to call DecodeEvent;
                \* "handle": it holds DecodeEvent's result; "returned"
  ret,          \* the (event, err) DecodeEvent returned last
  result,       \* the error WalkEvent returned ("none" while walking)
  delivered,    \* the events the consumer was invoked with, in order
  replies,      \* the (isContinue, err) the consumer returned, in order
  log           \* one entry per DecodeEvent call (history)

vars == <<plan, stream, option, pos, description, tableInfo, pc, ret, result,
          delivered, replies, log>>

inputs == <<plan, stream, option>>

NoRet == [event |-> Nil, err |-> NoErr]

\* NewBinFileDecoder has checked the magic header and built an empty context
InitWith(plans, options) ==
  /\ plan \in plans
  /\ stream = Encode(plan)
  /\ option \in options
  /\ pos = 0
  /\ description = Nil
  /\ tableInfo = <<>>
  /\ pc = "decode"
  /\ ret = NoRet
  /\ result = "none"
  /\ delivered = <<>>
  /\ replies = <<>>
  /\ log = <<>>

\* WalkEvent calls decoder.DecodeEvent()
CallDecodeEvent ==
  /\ pc = "decode"
  /\ \E r \in {DecodeEvent(SliceFrom(stream, pos), description, tableInfo, option)} :
       /\ pos' = pos + r.read
       /\ description' = r.desc
       /\ tableInfo' = r.tables
       /\ ret' = [event |-> r.event, err |-> r.err]
       /\ log' = Append(log, [at |-> pos, width |-> r.width, header |-> r.header,
                              err |-> r.err, event |-> r.event,
                              descBefore |-> description,
                              tablesBefore |-> tableInfo])
  /\ pc' = "handle"
  /\ UNCHANGED <<inputs, result, delivered, replies>>

\* err == io.EOF: return nil
WalkReturnEOF ==
  /\ pc = "handle"
  /\ ret.err = EOF
  /\ pc' = "returned"
  /\ result' = NoErr
  /\ UNCHANGED <<inputs, pos, description, tableInfo, ret, delivered, replies, log>>

\* err != nil: return err (a panic leaves WalkEvent the same way)
WalkReturnErr ==
  /\ pc = "handle"
  /\ ret.err \notin {NoErr, EOF}
  /\ pc' = "returned"
  /\ result' = ret.err
  /\ UNCHANGED <<inputs, pos, description, tableInfo, ret, delivered, replies, log>>

\* event == nil: continue
WalkSkip ==
  /\ pc = "handle"
  /\ ret.err = NoErr
  /\ ret.event = Nil
  /\ pc' = "decode"
  /\ UNCHANGED <<inputs, pos, description, tableInfo, ret, result, delivered,
                 replies, log>>

\* decoder.Option.Stop(event.Header): return nil
WalkStop ==
  /\ pc = "handle"
  /\ ret.err = NoErr
  /\ ret.event # Nil
  /\ Stop(option, ret.event.Header)
  /\ pc' = "returned"
  /\ result' = NoErr
  /\ UNCHANGED <<inputs, pos, description, tableInfo, ret, delivered, replies, log>>

ConsumerReplies ==
  {[isContinue |-> c, err |-> e] : c \in BOOLEAN, e \in {NoErr, "consumer error"}}

\* a walk that only a consumer error ends: the variant C5 rules out
endsWalkOnError(reply) == reply.err # NoErr

\* what WalkEvent does with the consumer's reply
endsWalk(reply) == ~reply.isContinue \/ reply.err # NoErr

\* isContinue, err := f(event); if !isContinue || err != nil { return err }
WalkConsume ==
  /\ pc = "handle"
  /\ ret.err = NoErr
  /\ ret.event # Nil
  /\ ~Stop(option, ret.event.Header)
  /\ \E reply \in ConsumerReplies :
       /\ delivered' = Append(delivered, ret.event)
       /\ replies' = Append(replies, reply)
       /\ IF endsWalk(reply)
            THEN pc' = "returned" /\ result' = reply.err
            ELSE pc' = "decode" /\ result' = result
  /\ UNCHANGED <<inputs, pos, description, tableInfo, ret, log>>

Next ==
  \/ CallDecodeEvent
  \/ WalkReturnEOF
  \/ WalkReturnErr
  \/ WalkSkip
  \/ WalkStop
  \/ WalkConsume

\* ------------------------------------------------------------------------
\* Specifications: the walk over every stream of a bounded set of plans

\* the longest plan of Spec
MaxEvents == 3

\* the longest plan of SpecWindow
MaxWindowEvents == 3

\* a type code that is no key of EventType2Str
unlistedEventType == LastEventType + 1

PlainFDE == FDE(defaultEventHeaderSize, FALSE, 8)
ChecksumFDE == FDE(defaultEventHeaderSize, TRUE, 8)
LegacyFDE == FDE(legacyEventHeaderSize, FALSE, 6)
TableA == TMap(1, <<116>>, <<MySQLTypeLong, MySQLTypeVarchar>>, <<20, 0>>, 0)
TableB == TMap(1, <<117>>, <<MySQLTypeLong>>, <<>>, 0)
TableC == TMap(2, <<118>>, <<MySQLTypeLong>>, <<>>, 0)
TableLong == TMap(1, <<119>>, <<MySQLTypeLong>>, <<>>, 1)
WriteA == Rows(WriteRowsEventV1, 1, 2)
UpdateC == Rows(UpdateRowsEventV2, 2, 1)
Gtids == Raw(PreviousGTIDEvent, <<1, 2, 3>>)
StopEv == Raw(StopEvent, <<9>>)
Unlisted == Raw(unlistedEventType, <<9>>)

Alphabet ==
  {PlainFDE, ChecksumFDE, LegacyFDE, TableA, TableLong, WriteA, UpdateC,
   Xid(7), Gtids, StopEv, Unlisted}

WindowAlphabet == {PlainFDE, LegacyFDE, TableA, TableB, Xid(7), StopEv, Unlisted}

\* the plans of 1..n events over alphabet
PlansOver(alphabet, n) == UNION {[1..k -> alphabet] : k \in 1..n}

\* the size of a plain format description event, and with it the offset at
\* which the second event of a plan that starts with one begins
plainFDESize == Len(EncodeEvent(PlainFDE, StartLayout))
secondEventAt == magicLength + plainFDESize

Option(startPos, endPos, startTime, endTime) ==
  [StartPos |-> startPos, EndPos |-> endPos, StartTime |-> startTime,
   EndTime |-> endTime]

NoWindow == {Nil, Option(0, 0, ZeroTime, ZeroTime)}

StartPositions == {0, secondEventAt, secondEventAt + 1}
StartTimes == {ZeroTime, TimeAt(TimeBase + 2), TimeAt(TimeBase + 50)}
\* the second event of a plan PlainFDE, Xid ends at secondEventAt + 27
EndPositions == {0, secondEventAt + 27, secondEventAt + 26}
EndTimes == {ZeroTime, TimeAt(TimeBase + 2)}

WindowOptions ==
  {Nil}
    \cup {Option(sp, 0, st, ZeroTime) : sp \in StartPositions, st \in StartTimes}
    \cup {Option(0, ep, ZeroTime, et) : ep \in EndPositions, et \in EndTimes}
    \cup {Option(secondEventAt, secondEventAt + 27, TimeAt(TimeBase + 50),
                 TimeAt(TimeBase + 2))}

\* a window that opens at the second event and closes at the third
NarrowWindow == Option(0, 0, TimeAt(TimeBase + 1), TimeAt(TimeBase + 2))

Init == InitWith(PlansOver(Alphabet, MaxEvents), NoWindow \cup {NarrowWindow})

Spec == Init /\ [][Next]_vars

InitWindow == InitWith(PlansOver(WindowAlphabet, MaxWindowEvents), WindowOptions)

SpecWindow == InitWindow /\ [][Next]_vars

\* the longest plan of SpecChecksum
MaxChecksumEvents == 3

\* event d with a checksum suffix that does not match its bytes
Corrupt(d) == [d EXCEPT !.badCrc = TRUE]

ChecksumAlphabet ==
  {ChecksumFDE, PlainFDE, Corrupt(ChecksumFDE), TableA, Corrupt(TableA),
   Xid(7), Corrupt(Xid(7)), Gtids}

InitChecksum ==
  InitWith(PlansOver(ChecksumAlphabet, MaxChecksumEvents),
           NoWindow \cup {NarrowWindow})

SpecChecksum == InitChecksum /\ [][Next]_vars

\* the longest plan of SpecRows
MaxRowsEvents == 2

\* column counts on both sides of a byte boundary of the bitmaps
RowsColumnCounts == {1, 8, 9}

RowsAlphabet ==
  {PlainFDE, ChecksumFDE}
    \cup {Rows(t, 1, nc) : t \in RowsEventTypes, nc \in RowsColumnCounts}

\* a window that opens and closes at the second event
EarlyWindow == Option(0, 0, TimeAt(TimeBase + 1), TimeAt(TimeBase + 1))

InitRows ==
  InitWith(PlansOver(RowsAlphabet, MaxRowsEvents), NoWindow \cup {EarlyWindow})

SpecRows == InitRows /\ [][Next]_vars

\* ------------------------------------------------------------------------
\* Reading the history.  DecodeEvent call i reads event i of the plan: every
\* earlier call read one whole event (a call that fails ends the walk).

\* call i has been handled by WalkEvent's loop body
Handled(i) == i < Len(log) \/ pc # "handle"

\* call i returned an event and no error
Returned(i) == log[i].err = NoErr /\ log[i].event # Nil

\* call i dropped its event before validation (nil, nil)
Discarded(i) == log[i].err = NoErr /\ log[i].event = Nil

\* the calls that read an event of the plan (the last call may have met the
\* end of the stream instead)
Calls == 1..(IF Len(log) < Len(plan) THEN Len(log) ELSE Len(plan))

\* the number of calls up to i that returned an event
RECURSIVE ReturnedUpTo(_)
ReturnedUpTo(i) ==
  IF i = 0 THEN 0 ELSE ReturnedUpTo(i - 1) + (IF Returned(i) THEN 1 ELSE 0)

\* the consumer was invoked with the event call i returned
Delivered(i) ==
  /\ Returned(i)
  /\ ReturnedUpTo(i) <= Len(delivered)
  /\ delivered[ReturnedUpTo(i)] = log[i].event

\* -------------------------------------------------------------------- C1
\* C1: decoding a rows event whose table id no earlier Table-Map event of
\* the walk has registered fails: DecodeEvent returns an error for it and
\* the event is never delivered to the consumer.
C1_UnregisteredRowsFail ==
  \A i \in Calls :
    (/\ plan[i].k = "rows"
     /\ plan[i].id \notin DOMAIN log[i].tablesBefore
     /\ ~Discarded(i))
    => log[i].err # NoErr /\ log[i].event = Nil

\* -------------------------------------------------------------------- C2
\* the events C2 speaks of, in a stream that starts with a format
\* description: read whole, of a type other than Format-Description that
\* DecodeEvent has a decoder for
Filtered(i) ==
  /\ plan[1].k = "fde"
  /\ plan[i].typ \in {XIDEvent, TableMapEvent}
  /\ log[i].header # NoHeader
  /\ log[i].err \notin {EOF, ErrUnexpectedEOF}

\* C2: with startPos set and startTime unset, a non-Format-Description
\* event is discarded without invoking the consumer exactly when
\* logPos - eventSize < startPos; an event with logPos - eventSize =
\* startPos is not discarded.
C2_StartPosDiscardsEarlierEvents ==
  (option # Nil /\ option.StartPos # 0 /\ option.StartTime.isZero)
  => \A i \in Calls :
       Filtered(i)
       => (Discarded(i)
             <=> log[i].header.LogPos - log[i].header.EventSize < option.StartPos)

\* -------------------------------------------------------------------- C3
\* the stop condition as the window is specified: logPos > endPos, or
\* timestamp >= endTime, each only when set
StopCondition(header) ==
  /\ option # Nil
  /\ \/ option.EndPos # 0 /\ header.LogPos > option.EndPos
     \/ ~option.EndTime.isZero /\ header.Timestamp >= option.EndTime.unix

\* C3: for every event DecodeEvent returned: if the stop condition holds
\* for it, WalkEvent returns nil at that event without invoking the
\* consumer for it and nothing is read or delivered afterwards; otherwise
\* (an event with logPos = endPos included) the event is delivered.
C3_StopEndsWalkBeforeDelivery ==
  \A i \in 1..Len(log) :
    (Returned(i) /\ Handled(i))
    => IF StopCondition(log[i].header)
         THEN /\ i = Len(log)
              /\ pc = "returned"
              /\ result = NoErr
              /\ Len(delivered) = ReturnedUpTo(i) - 1
         ELSE Delivered(i)

\* a walk that delivered an event ending exactly at endPos and then stopped
\* at a later event
C3_Witness ==
  /\ pc = "returned"
  /\ log # <<>>
  /\ Returned(Len(log))
  /\ StopCondition(log[Len(log)].header)
  /\ \E k \in 1..Len(delivered) : delivered[k].Header.LogPos = option.EndPos

\* -------------------------------------------------------------------- C4
\* startPos unset and startTime later than the timestamp of every event
FutureStart ==
  /\ option # Nil
  /\ option.StartPos = 0
  /\ ~option.StartTime.isZero
  /\ \A i \in 1..Len(plan) : option.StartTime.unix > TimeBase + i - 1

\* C4 as claimed: with startTime later than every event and startPos
\* unset, a walk over a stream that starts with a Format-Description
\* never invokes the consumer.
C4_NoConsumerInvocation ==
  (FutureStart /\ plan[1].k = "fde") => delivered = <<>>

\* C4 as amended: with startTime later than every event and startPos
\* unset, the consumer is invoked for Format-Description events only; the
\* first event is decoded and adopted and, unless the stop condition holds
\* for it, delivered; no event of another type is delivered.
C4_OnlyFormatDescriptionsDelivered ==
  (FutureStart /\ plan[1].k = "fde")
  => /\ \A k \in 1..Len(delivered) :
          delivered[k].Header.EventType = FormatDescriptionEvent
     /\ \A i \in Calls : plan[i].k # "fde" => ~Returned(i)
     /\ log # <<>> => Returned(1) /\ description # Nil
     /\ (log # <<>> /\ Handled(1) /\ ~StopCondition(log[1].header))
          => Delivered(1)

\* a finished walk under a future startTime that delivered the format
\* description and discarded the event after it
C4_Witness ==
  /\ FutureStart
  /\ plan[1].k = "fde"
  /\ pc = "returned"
  /\ Len(log) > Len(plan)
  /\ Len(plan) >= 2
  /\ Discarded(2)
  /\ Len(delivered) = 1

\* -------------------------------------------------------------------- C5
\* the consumer's last reply asked to stop or failed
ConsumerStopped ==
  /\ replies # <<>>
  /\ \/ ~replies[Len(replies)].isContinue
     \/ replies[Len(replies)].err # NoErr

\* C5: once a consumer invocation returns continue = false or an error,
\* WalkEvent has returned the consumer's error, and from then on no byte is
\* read, the decode context does not change and the consumer is not
\* invoked again.
C5_ConsumerStopIsFinal ==
  /\ [](ConsumerStopped
          => pc = "returned" /\ result = replies[Len(replies)].err)
  /\ [][ConsumerStopped
          => UNCHANGED <<pos, description, tableInfo, delivered, replies, log>>]_vars

\* the consumer stopped the walk at its second event with bytes left unread
C5_Witness ==
  /\ ConsumerStopped
  /\ Len(delivered) >= 2
  /\ pos < Len(stream)
  /\ pc = "returned"

\* -------------------------------------------------------------------- C6
\* a stream that starts with its one format description and holds only
\* events of listed types, laid out whole with correct checksums
WellFormed ==
  /\ plan[1].k = "fde"
  /\ \A i \in 1..Len(plan) :
       /\ plan[i].k = "fde" => i = 1
       /\ plan[i].typ \in KnownEventTypes \ {UnknownEvent}
       /\ ~plan[i].badCrc
       /\ plan[i].k = "tmap" => plan[i].extra = 0

ConsumerAlwaysContinues ==
  \A k \in 1..Len(replies) : replies[k].isContinue /\ replies[k].err = NoErr

\* C6: for a finite well-formed stream, no window options and a consumer
\* that always continues, WalkEvent returns nil when the end of the stream
\* is met at an event boundary, after invoking the consumer exactly once
\* per event in stream order.
C6_WellFormedWalkDeliversAll ==
  (option \in NoWindow /\ WellFormed /\ ConsumerAlwaysContinues /\ pc = "returned")
  => /\ result = NoErr
     /\ Len(delivered) = Len(plan)
     /\ \A i \in 1..Len(plan) :
          /\ i <= Len(delivered)
          /\ delivered[i].Header.EventType = plan[i].typ
          /\ delivered[i].Header.Timestamp = TimeBase + i - 1

\* -------------------------------------------------------------------- C7
\* the types DecodeEvent has a dedicated body decoder for
DecodedTypes ==
  {FormatDescriptionEvent, QueryEvent, XIDEvent, IntvarEvent, RotateEvent,
   TableMapEvent} \cup RowsEventTypes

\* C7: an in-window event of a listed type without a dedicated body
\* decoder is returned with no error, its body the raw checksum-trimmed
\* bytes, and delivered to the consumer.
C7_UndecodedTypesPassThrough ==
  \A i \in Calls :
    (/\ plan[i].k = "raw"
     /\ plan[i].typ \in KnownEventTypes \ DecodedTypes
     /\ ~plan[i].badCrc
     /\ ~Discarded(i))
    => /\ Returned(i)
       /\ log[i].event.Body = [kind |-> "UnParsed", Data |-> plan[i].body]
       /\ Handled(i) /\ ~StopCondition(log[i].header) => Delivered(i)

\* -------------------------------------------------------------------- C8
\* C8: an event whose type code is not listed makes the walk fail whatever
\* the window options: DecodeEvent returns no event and an error after
\* reading the header only, the decode context is as before the call, no
\* further call is made, WalkEvent returns that error, and no event of an
\* unlisted type is ever delivered.
C8_UnlistedTypeFailsWalk ==
  /\ \A k \in 1..Len(delivered) :
       delivered[k].Header.EventType \in KnownEventTypes
  /\ \A i \in Calls :
       plan[i].typ \notin KnownEventTypes
       => /\ log[i].err = "got unknown event type"
          /\ log[i].event = Nil
          /\ i = Len(log)
          /\ pos = log[i].at + log[i].width
          /\ description = log[i].descBefore
          /\ tableInfo = log[i].tablesBefore
          /\ Handled(i) => pc = "returned" /\ result = log[i].err

\* an unlisted event outside the window failed a walk that had delivered
\* an event
C8_Witness ==
  /\ pc = "returned"
  /\ option # Nil
  /\ delivered # <<>>
  /\ \E i \in Calls :
       /\ i >= 2
       /\ plan[i].typ \notin KnownEventTypes
       /\ ~option.StartTime.isZero
       /\ option.StartTime.unix > log[i].header.Timestamp
       /\ result = log[i].err

\* -------------------------------------------------------------------- C9
\* the registry that holds, for each table id, the body of the last of the
\* calls in S that read a table map of that id
RegistryOf(S) ==
  LET last(id) ==
        CHOOSE i \in S : /\ plan[i].id = id
                         /\ \A j \in S : plan[j].id = id => j <= i
  IN [id \in {plan[i].id : i \in S} |-> log[last(id)].event.Body]

\* the table maps read whole so far / those DecodeEvent returned
TableMapsRead == {i \in Calls : plan[i].k = "tmap" /\ log[i].err = NoErr}
TableMapsReturned == {i \in TableMapsRead : Returned(i)}

\* each entry of the registry is the table map of the plan it came from
EntriesAsAnnounced(S) ==
  \A id \in DOMAIN tableInfo :
    \E i \in S :
      /\ plan[i].id = id
      /\ tableInfo[id].TableID = id
      /\ tableInfo[id].Table = plan[i].name
      /\ tableInfo[id].ColumnTypeDef = plan[i].types

\* C9 as claimed: under any window options the registry of a walk over a
\* stream that starts with a format description maps each table id to the
\* most recent table map read from the stream for it, and holds no other
\* entry.
C9_RegistryIsLastTableMapRead ==
  plan[1].k = "fde"
  => /\ DOMAIN tableInfo = {plan[i].id : i \in TableMapsRead}
     /\ \A id \in DOMAIN tableInfo :
          \E i \in TableMapsRead :
            /\ plan[i].id = id
            /\ \A j \in TableMapsRead : plan[j].id = id => j <= i
            /\ tableInfo[id].Table = plan[i].name
            /\ tableInfo[id].ColumnTypeDef = plan[i].types

\* C9 as amended: under any window options the registry maps each table id
\* to the most recent table map that DecodeEvent returned for it, replaced
\* and not merged; a table map the start filter discarded is not
\* registered, and the registry holds no other entry.
C9_RegistryIsLastTableMapReturned ==
  /\ tableInfo = RegistryOf(TableMapsReturned)
  /\ EntriesAsAnnounced(TableMapsReturned)
  /\ \A i \in TableMapsRead :
       Discarded(i) => tableInfo = log[i].tablesBefore \/ i < Len(log)

\* a later table map replaced the entry of an earlier one of the same id
\* under window options
C9_Witness ==
  /\ option # Nil
  /\ \E i, j \in TableMapsReturned :
       /\ i < j
       /\ plan[i].id = plan[j].id
       /\ plan[i].name # plan[j].name
       /\ tableInfo[plan[j].id].Table = plan[j].name

\* ------------------------------------------------------------------- C10
\* the format descriptions read before call i
FormatDescriptionsBefore(i) ==
  {j \in 1..(i - 1) : j <= Len(plan) /\ plan[j].k = "fde"}

Latest(S) == CHOOSE j \in S : \A k \in S : k <= j

\* C10: every header is read with 19 bytes while no format description
\* was read and with the header length the most recent one declares
\* afterwards; a format description is decoded and adopted whether or not
\* the start condition holds for it, and the adopted one is wholly the
\* most recent.
C10_HeaderWidthFollowsFormatDescription ==
  /\ \A i \in 1..Len(log) :
       log[i].width = IF FormatDescriptionsBefore(i) = {} THEN 19
                      ELSE plan[Latest(FormatDescriptionsBefore(i))].hl
  /\ LET S == FormatDescriptionsBefore(Len(log) + 1) IN
       IF S = {} THEN description = Nil
       ELSE /\ Returned(Latest(S))
            /\ description = log[Latest(S)].event.Body
            /\ description.EventHeaderLength = plan[Latest(S)].hl
            /\ description.EventTypeHeader[TableMapEvent] = plan[Latest(S)].idHeader

\* two format descriptions, both before the start time, each set the width
\* of the header read after it
C10_Witness ==
  /\ FutureStart
  /\ Len(log) = 3
  /\ plan[1].k = "fde" /\ plan[2].k = "fde"
  /\ log[2].width = 19
  /\ log[3].width = 13
  /\ ~Start(option, log[2].header)

\* ------------------------------------------------------------------- C11
\* call i decoded a table map with bytes left over after its null bitmap:
\* the stream starts with a format description, the event passed the start
\* filter and validation
LongTableMapDecoded(i) ==
  /\ plan[1].k = "fde"
  /\ plan[i].k = "tmap"
  /\ plan[i].extra # 0
  /\ ~plan[i].badCrc
  /\ ~Discarded(i)

\* C11: a table map whose bytes after the column metadata are not exactly
\* ceil(columnCount/8) makes the walk fail: DecodeEvent returns no event,
\* the registry is as before the call, and WalkEvent returns a non-nil
\* error.
C11_LongTableMapFailsWalk ==
  \A i \in Calls :
    LongTableMapDecoded(i)
    => /\ log[i].event = Nil
       /\ log[i].err # NoErr
       /\ i = Len(log)
       /\ tableInfo = log[i].tablesBefore
       /\ Handled(i) => pc = "returned" /\ result \notin {NoErr, "none"}

\* ------------------------------------------------------------------- C12
\* the format description adopted before call i enables checksums
ChecksumsEnabledAt(i) ==
  log[i].descBefore # Nil /\ log[i].descBefore.hasCheckSum

\* C12: validation precedes the body decoder of every in-window event:
\* when the adopted format description enables checksums, an event whose
\* stored checksum does not match its bytes ends the walk with the
\* validation error, is not delivered and leaves the format description
\* and the registry as they were; an event that is returned had a matching
\* checksum, and its decoder was given the body without the 4 checksum
\* bytes.
C12_ValidationPrecedesDecoding ==
  \A i \in Calls :
    /\ (plan[i].badCrc /\ ChecksumsEnabledAt(i) /\ ~Discarded(i))
       => /\ log[i].err = "binlog checksum validation failed"
          /\ i = Len(log)
          /\ description = log[i].descBefore
          /\ tableInfo = log[i].tablesBefore
          /\ Len(delivered) = ReturnedUpTo(i - 1)
          /\ Handled(i) => pc = "returned" /\ result = log[i].err
    /\ (Returned(i) /\ ChecksumsEnabledAt(i))
       => /\ ~plan[i].badCrc
          /\ Len(log[i].event.ChecksumVal) = 4
          /\ plan[i].k = "raw" /\ plan[i].typ = PreviousGTIDEvent
               => log[i].event.Body.Data = plan[i].body

\* a corrupt table map ended a walk that had delivered the events before it
C12_Witness ==
  /\ pc = "returned"
  /\ result = "binlog checksum validation failed"
  /\ Len(delivered) = 2
  /\ Len(log) = 3
  /\ plan[3].k = "tmap"
  /\ plan[3].badCrc
  /\ tableInfo = <<>>

\* ------------------------------------------------------------------- C13
\* the Update variants of the rows events, of every version
UpdateVariants == {UpdateRowsEventV0, UpdateRowsEventV1, UpdateRowsEventV2}

\* C13 as claimed: the payload decoded from a rows event of any type and
\* column count has a first presence bitmap of ceil(columnCount/8) bytes,
\* a second one of the same size when the type is an Update variant (v0,
\* v1 or v2), and no second one when it is a Write or Delete variant.
C13_SecondBitmapIffUpdate ==
  \A i \in Calls :
    (plan[i].k = "rows" /\ Returned(i))
    => /\ log[i].event.Body.ColumnCount = plan[i].nc
       /\ Len(log[i].event.Body.ColumnsBitmap1) = (plan[i].nc + 7) \div 8
       /\ Len(log[i].event.Body.ColumnsBitmap2) =
            IF plan[i].typ \in UpdateVariants
              THEN (plan[i].nc + 7) \div 8 ELSE 0

\* C13 as amended: the first presence bitmap has ceil(columnCount/8) bytes;
\* a second one of the same size follows exactly for UpdateRowsEventV1 and
\* UpdateRowsEventV2; Write and Delete variants and UpdateRowsEventV0 carry
\* one bitmap.  Both bitmaps are the bytes that follow the column count in
\* the event.
C13_SecondBitmapIffUpdateV1V2 ==
  \A i \in Calls :
    (plan[i].k = "rows" /\ Returned(i))
    => /\ log[i].event.Body.ColumnCount = plan[i].nc
       /\ log[i].event.Body.ColumnsBitmap1 =
            [k \in 1..((plan[i].nc + 7) \div 8) |-> 255]
       /\ log[i].event.Body.ColumnsBitmap2 =
            IF plan[i].typ \in {UpdateRowsEventV1, UpdateRowsEventV2}
              THEN [k \in 1..((plan[i].nc + 7) \div 8) |-> 255] ELSE <<>>

\* an update of 9 columns in a checksummed stream was decoded with two
\* 2-byte bitmaps
C13_Witness ==
  /\ Len(plan) = 2
  /\ Len(log) >= 2
  /\ plan[1].k = "fde" /\ plan[1].csum
  /\ plan[2].k = "rows"
  /\ plan[2].typ = UpdateRowsEventV2
  /\ plan[2].nc = 9
  /\ Returned(2)
  /\ Len(log[2].event.Body.ColumnsBitmap1) = 2
  /\ Len(log[2].event.Body.ColumnsBitmap2) = 2

=============================================================================
